---- MODULE Spec2Model ----
(***************************************************************************)
(* Agent Swamps orchestration core: the priority TaskQueue, the            *)
(* AgentRegistry load counters, the AgentSelector, the Orchestrator        *)
(* processing loop with waitForTask, and the WorkflowManagementSystem      *)
(* step executor.                                                          *)
(*                                                                         *)
(* JavaScript runs one synchronous block at a time, so every action below  *)
(* is one such block: from the event that starts it (a call, a timer, a    *)
(* promise settling) up to the next await.  The operators that carry the   *)
(* source's method names are state transformers: they take the program     *)
(* state as a record S and return the state after the call.                *)
(***************************************************************************)
EXTENDS Integers, Sequences, FiniteSets, TLC

\* ------------------------------------------------------------------ bounds
MaxTasks == 3
MaxQueueTasks == 3
MaxWaitTasks == 2
MaxLiveTasks == 2
MaxWaiters == 1
MaxLoops == 2
MaxSteps == 2
MaxCalls == 4
MaxStatusTasks == 2
MaxScoreTasks == 1
MaxScoreLoad == 2
MaxSelectTasks == 1
MaxSelectLoad == 1
MaxAgentTasks == 3
MaxInputSteps == 2
MaxTypedSteps == 2
MaxClockTicks == 3
TicksPerCooldown == 2

\* the attempt cap the workflow documentation gives for a failing step
maxAttempts == 3

\* ModelRouter.failureThreshold and ModelRouter.cooldownMs
failureThreshold == 3
cooldownMs == 30000

\* ------------------------------------------------------ fixed vocabularies
TaskIds == 1..MaxTasks
NoTask == 0
Priorities == {"CRITICAL", "HIGH", "MEDIUM", "LOW"}
priorities == <<"CRITICAL", "HIGH", "MEDIUM", "LOW">>
TerminalStatuses == {"COMPLETED", "FAILED", "CANCELLED"}
TaskStatuses == {"PENDING", "ASSIGNED", "IN_PROGRESS"} \cup TerminalStatuses
\* the order of enum TaskStatus; NONE is a task not yet created
StatusRank(s) ==
  CASE s = "NONE" -> 0 [] s = "PENDING" -> 1 [] s = "ASSIGNED" -> 2 [] s = "IN_PROGRESS" -> 3
    [] s \in TerminalStatuses -> 4
TaskTypes == {"CODE_GENERATION", "TESTING", "GENERAL"}
NoAgent == "none"
LoopIds == 1..MaxLoops
WaiterIds == 0..MaxWaiters

\* the agents index.ts registers first, in registration order
AgentOrder == <<"dev", "qa">>
Agents == {"dev", "qa"}

capabilities ==
  [dev |-> [skills |-> {"code-generation", "code-review", "debugging"},
            maxConcurrentTasks |-> 3,
            supportedTaskTypes |-> {"CODE_GENERATION", "CODE_REVIEW"}],
   qa  |-> [skills |-> {"test-generation", "test-execution", "bug-reporting"},
            maxConcurrentTasks |-> 2,
            supportedTaskTypes |-> {"TESTING"}]]

\* the type each agent's constructor passes to Agent
agentType == [dev |-> "DEVELOPER", qa |-> "QA"]

\* the names a ModelProvider can be registered under, and no name at all
ProviderNames == {"gemini", "local"}
NoProvider == "none"

VARIABLES
  tasks,          \* Task objects by id
  queues,         \* TaskQueue.queues: priority -> sequence of queued task ids
  activeTasks,    \* TaskQueue.activeTasks (key set)
  completedTasks, \* TaskQueue.completedTasks (key set)
  arrival,        \* the ids still queued, in the order of QueuedTask.enqueuedAt
  ret,            \* what the call made in the last step returned
  processing,     \* Orchestrator.processing
  loops,          \* activations of Orchestrator.processQueue and where each is suspended
  taskResults,    \* Orchestrator.taskResults
  resultSets,     \* per task id: how many times taskResults.set ran
  events,         \* per task id: how many times 'task:completed' was emitted
  loadCalls,      \* per task id: incrementLoad / decrementLoad calls made for its dispatch
  waiters,        \* promises handed out by waitForTask
  agentStatus,    \* Agent.status
  agentTask,      \* the task an agent's processTask is working on
  idleTimer,      \* the setTimeout armed in the finally of Agent.processTask
  currentLoad,    \* AgentRegistry metadata.currentLoad
  metrics,        \* Agent.metrics
  wf,             \* WorkflowManagementSystem: template, execution, position of the executor
  router          \* ModelRouter: providers, defaultProvider, circuitBreakers, the clock

vars == <<tasks, queues, activeTasks, completedTasks, arrival, ret, processing, loops,
          taskResults, resultSets, events, loadCalls, waiters, agentStatus, agentTask,
          idleTimer, currentLoad, metrics, wf, router>>

\* the program state as one record, and its write-back
Cur ==
  [tasks |-> tasks, queues |-> queues, activeTasks |-> activeTasks,
   completedTasks |-> completedTasks, arrival |-> arrival, ret |-> ret,
   processing |-> processing, loops |-> loops, taskResults |-> taskResults,
   resultSets |-> resultSets, events |-> events, loadCalls |-> loadCalls,
   waiters |-> waiters, agentStatus |-> agentStatus, agentTask |-> agentTask,
   idleTimer |-> idleTimer, currentLoad |-> currentLoad, metrics |-> metrics, wf |-> wf,
   router |-> router]

Commit(S0) ==
  \E S \in {S0} :
    /\ tasks' = S.tasks
    /\ queues' = S.queues
    /\ activeTasks' = S.activeTasks
    /\ completedTasks' = S.completedTasks
    /\ arrival' = S.arrival
    /\ ret' = S.ret
    /\ processing' = S.processing
    /\ loops' = S.loops
    /\ taskResults' = S.taskResults
    /\ resultSets' = S.resultSets
    /\ events' = S.events
    /\ loadCalls' = S.loadCalls
    /\ waiters' = S.waiters
    /\ agentStatus' = S.agentStatus
    /\ agentTask' = S.agentTask
    /\ idleTimer' = S.idleTimer
    /\ currentLoad' = S.currentLoad
    /\ metrics' = S.metrics
    /\ wf' = S.wf
    /\ router' = S.router

\* a step that is no call from outside (a timer, a promise settling) returns nothing
Resume(S) == Commit([S EXCEPT !.ret = [op |-> "none", task |-> 0, ok |-> FALSE]])

\* ----------------------------------------------------------------- helpers
\* the element of a one-element set; TheOne({(e) : x \in {v}}) is e with x bound to the
\* value of v, which is evaluated once, as a call evaluates its arguments
TheOne(set) == CHOOSE x \in set : TRUE

Range(s) == {s[i] : i \in 1..Len(s)}

RECURSIVE RemoveFirst(_, _)
RemoveFirst(s, x) ==
  IF s = <<>> THEN <<>>
  ELSE IF Head(s) = x THEN Tail(s)
  ELSE <<Head(s)>> \o RemoveFirst(Tail(s), x)

RECURSIVE SumOver(_, _)
SumOver(f, D) ==
  IF D = {} THEN 0
  ELSE LET x == CHOOSE y \in D : TRUE IN f[x] + SumOver(f, D \ {x})

NoTaskRecord ==
  [status |-> "NONE", priority |-> "MEDIUM", type |-> "GENERAL", requiredCapabilities |-> {},
   assignedAgentId |-> NoAgent, completedAt |-> FALSE]

NoResult == [taskId |-> NoTask, success |-> FALSE, agentId |-> NoAgent]

Returned(op, t, ok) == [op |-> op, task |-> t, ok |-> ok]

\* ------------------------------------------------------------- TaskQueue
\* enqueue(task): push on the sub-queue of task.priority, if there is one
enqueue(S0, t) ==
  TheOne({(
    LET p == S.tasks[t].priority
    IN IF p \in DOMAIN S.queues
       THEN [S EXCEPT !.queues[p] = Append(@, t), !.arrival = Append(@, t)]
       ELSE S
  ) : S \in {S0}})

\* the level dequeue and peek stop at: the first non-empty one in the order of `priorities`
RECURSIVE firstNonEmpty(_, _)
firstNonEmpty(qs, i) ==
  IF i > Len(priorities) THEN 0
  ELSE IF Len(qs[priorities[i]]) > 0 THEN i
  ELSE firstNonEmpty(qs, i + 1)

\* the task dequeue() returns: queue.shift() of that level, NoTask for null
dequeueTask_lifo(qs) ==
  LET i == firstNonEmpty(qs, 1)
  IN IF i = 0 THEN NoTask ELSE qs[priorities[i]][Len(qs[priorities[i]])]

dequeueTask(qs) ==
  LET i == firstNonEmpty(qs, 1)
  IN IF i = 0 THEN NoTask ELSE Head(qs[priorities[i]])

dequeue(S0) ==
  TheOne({(
    LET t == dequeueTask(S.queues)
    IN IF t = NoTask THEN S
       ELSE [S EXCEPT !.queues[S.tasks[t].priority] = RemoveFirst(@, t),
                      !.arrival = RemoveFirst(@, t),
                      !.activeTasks = @ \cup {t}]
  ) : S \in {S0}})

queuedIds(qs) == UNION {Range(qs[p]) : p \in DOMAIN qs}

getQueueSize(qs) ==
  Len(qs["CRITICAL"]) + Len(qs["HIGH"]) + Len(qs["MEDIUM"]) + Len(qs["LOW"])

getStats(S) ==
  [pending |-> getQueueSize(S.queues),
   active |-> Cardinality(S.activeTasks),
   completed |-> Cardinality(S.completedTasks)]

\* getTask(id): active, then queued, then completed; FALSE stands for undefined
getTask(S, t) ==
  t \in S.activeTasks \/ t \in queuedIds(S.queues) \/ t \in S.completedTasks

updateTaskStatus(S0, t, s) ==
  TheOne({(
    IF ~getTask(S, t) THEN S
    ELSE IF s \in TerminalStatuses
         THEN [S EXCEPT !.tasks[t].status = s,
                        !.tasks[t].completedAt = TRUE,
                        !.activeTasks = @ \ {t},
                        !.completedTasks = @ \cup {t}]
         ELSE [S EXCEPT !.tasks[t].status = s]
  ) : S \in {S0}})

\* removeTask: the active entry if there is one, else the first queue entry with that id
removeTaskResult(S, t) == t \in S.activeTasks \/ t \in queuedIds(S.queues)

removeTask(S0, t) ==
  TheOne({(
    IF t \in S.activeTasks THEN [S EXCEPT !.activeTasks = @ \ {t}]
    ELSE IF t \in queuedIds(S.queues)
         THEN [S EXCEPT !.queues = [p \in DOMAIN @ |-> RemoveFirst(@[p], t)],
                        !.arrival = RemoveFirst(@, t)]
         ELSE S
  ) : S \in {S0}})

\* --------------------------------------------------------- AgentRegistry
\* the registered agents (the keys of AgentRegistry.agents), in registration order
getAllAgents(S) == SelectSeq(AgentOrder, LAMBDA a : a \in DOMAIN S.agentStatus)

getAvailableAgents(S) == SelectSeq(getAllAgents(S), LAMBDA a : S.agentStatus[a] = "IDLE")

updateAgentStatus(S0, a, st) ==
  TheOne({(
    IF a \in DOMAIN S.agentStatus THEN [S EXCEPT !.agentStatus[a] = st] ELSE S
  ) : S \in {S0}})

\* a dispatch counted twice
incrementLoad_twice(S0, a) ==
  TheOne({(
    IF a \in DOMAIN S.currentLoad THEN [S EXCEPT !.currentLoad[a] = @ + 2] ELSE S
  ) : S \in {S0}})

incrementLoad(S0, a) ==
  TheOne({(
    IF a \in DOMAIN S.currentLoad THEN [S EXCEPT !.currentLoad[a] = @ + 1] ELSE S
  ) : S \in {S0}})

decrementLoad(S0, a) ==
  TheOne({(
    IF a \in DOMAIN S.currentLoad /\ S.currentLoad[a] > 0
    THEN [S EXCEPT !.currentLoad[a] = @ - 1]
    ELSE S
  ) : S \in {S0}})

getCurrentLoad(S, a) == IF a \in DOMAIN S.currentLoad THEN S.currentLoad[a] ELSE 0

\* --------------------------------------------------------- AgentSelector
\* Scores are exact fractions [n, d] with d > 0 where the source computes in floating point.
Frac(n, d) == [n |-> n, d |-> d]
FAdd(x, y) == TheOne({([n |-> p[1].n * p[2].d + p[2].n * p[1].d, d |-> p[1].d * p[2].d]) : p \in {<<x, y>>}})
FMul(x, y) == TheOne({([n |-> p[1].n * p[2].n, d |-> p[1].d * p[2].d]) : p \in {<<x, y>>}})
FLess(x, y) == TheOne({(p[1].n * p[2].d < p[2].n * p[1].d) : p \in {<<x, y>>}})
FLeq(x, y) == TheOne({(p[1].n * p[2].d <= p[2].n * p[1].d) : p \in {<<x, y>>}})

\* the default weights, in hundredths
weights ==
  [specialization |-> 35, historicalSuccess |-> 25, availability |-> 20,
   recentPerformance |-> 15, loadBalance |-> 5]

\* metrics.successRate: 0 until the first task, then successfulTasks / totalTasks
successRate(m) ==
  IF m.totalTasks = 0 THEN Frac(0, 1) ELSE Frac(m.successfulTasks, m.totalTasks)

getSpecializationScore(a, task) ==
  IF task.type \notin capabilities[a].supportedTaskTypes THEN Frac(3, 10)
  ELSE IF task.requiredCapabilities = {} THEN Frac(8, 10)
  ELSE Frac(Cardinality(task.requiredCapabilities \cap capabilities[a].skills),
            Cardinality(task.requiredCapabilities))

getHistoricalSuccessScore(S, a, task) ==
  LET m == S.metrics[a]
  IN IF m.taskTypeMetrics[task.type] > 0 /\ m.totalTasks > 0 THEN successRate(m)
     ELSE IF m.totalTasks > 0 THEN FMul(successRate(m), Frac(7, 10))
     ELSE Frac(5, 10)

getAvailabilityScore(S, a) ==
  LET load == getCurrentLoad(S, a)
      capacity == capabilities[a].maxConcurrentTasks
  IN IF load >= capacity THEN Frac(0, 1) ELSE Frac(capacity - load, capacity)

getRecentPerformanceScore(S, a) == successRate(S.metrics[a])

getLoadBalanceScore(S, a) ==
  LET load == getCurrentLoad(S, a)
      n == Len(getAllAgents(S))
      total == SumOver(S.currentLoad, DOMAIN S.currentLoad)
  IN IF n = 0 THEN Frac(1, 1)
     ELSE IF load * n < total THEN Frac(1, 1)
     ELSE IF load * n = total THEN Frac(1, 2)
     ELSE IF 2 * total - load * n < 0 THEN Frac(0, 1)
     ELSE Frac(2 * total - load * n, total)

\* the five factors calculateScore computes first
scoreFactors(S, a, task) ==
  [specialization |-> getSpecializationScore(a, task),
   historicalSuccess |-> getHistoricalSuccessScore(S, a, task),
   availability |-> getAvailabilityScore(S, a),
   recentPerformance |-> getRecentPerformanceScore(S, a),
   loadBalance |-> getLoadBalanceScore(S, a)]

\* the weighted sum with the availability term subtracted
weightedScore_availabilitySubtracted(f) ==
  FAdd(FMul(f.specialization, Frac(weights.specialization, 1)),
  FAdd(FMul(f.historicalSuccess, Frac(weights.historicalSuccess, 1)),
  FAdd(FMul(f.availability, Frac(0 - weights.availability, 1)),
  FAdd(FMul(f.recentPerformance, Frac(weights.recentPerformance, 1)),
       FMul(f.loadBalance, Frac(weights.loadBalance, 1))))))

\* the weighted sum calculateScore returns, times 100
weightedScore(f) ==
  FAdd(FMul(f.specialization, Frac(weights.specialization, 1)),
  FAdd(FMul(f.historicalSuccess, Frac(weights.historicalSuccess, 1)),
  FAdd(FMul(f.availability, Frac(weights.availability, 1)),
  FAdd(FMul(f.recentPerformance, Frac(weights.recentPerformance, 1)),
       FMul(f.loadBalance, Frac(weights.loadBalance, 1))))))

\* calculateScore, times 100
calculateScore(S, a, task) ==
  TheOne({(weightedScore(f)) : f \in {scoreFactors(S, a, task)}})

hasRequiredCapabilities(a, task) ==
  \/ task.requiredCapabilities = {}
  \/ task.requiredCapabilities \cap capabilities[a].skills # {}

\* the latest agent of the best score, as an unstable sort could leave it
bestScored_latest(scores) ==
  TheOne({(
    CHOOSE i \in 1..Len(sc) :
      /\ \A j \in 1..Len(sc) : FLeq(sc[j].score, sc[i].score)
      /\ \A j \in (i + 1)..Len(sc) : FLess(sc[j].score, sc[i].score)
  ) : sc \in {scores}})

\* selectAgent: the stable descending sort puts first the earliest agent of the best score
bestScored(scores) ==
  TheOne({(
    CHOOSE i \in 1..Len(sc) :
      /\ \A j \in 1..Len(sc) : FLeq(sc[j].score, sc[i].score)
      /\ \A j \in 1..(i - 1) : FLess(sc[j].score, sc[i].score)
  ) : sc \in {scores}})

selectAgent(S0, t) ==
  TheOne({(
    LET task == S.tasks[t]
        availableAgents == getAvailableAgents(S)
        capableAgents == SelectSeq(availableAgents, LAMBDA a : hasRequiredCapabilities(a, task))
        scoredAgents == [i \in 1..Len(capableAgents) |->
                           [agent |-> capableAgents[i],
                            score |-> calculateScore(S, capableAgents[i], task)]]
    IN IF Len(availableAgents) = 0 THEN NoAgent
       ELSE IF Len(capableAgents) = 0 THEN availableAgents[1]
       ELSE capableAgents[bestScored(scoredAgents)]
  ) : S \in {S0}})

\* ------------------------------------------------------------------ Agent
\* updateMetrics(success, _, taskType)
updateMetrics(S0, a, success, taskType) ==
  TheOne({(
    [S EXCEPT !.metrics[a].totalTasks = @ + 1,
              !.metrics[a].successfulTasks = IF success THEN @ + 1 ELSE @,
              !.metrics[a].taskTypeMetrics[taskType] = @ + 1]
  ) : S \in {S0}})

\* processTask up to its first await: THINKING, analyzeTask called
agentProcessTaskStart(S0, a, t) ==
  TheOne({(
    [S EXCEPT !.agentStatus[a] = "THINKING", !.agentTask[a] = t]
  ) : S \in {S0}})

\* the try block ran to its return: COMPLETED, metrics, and the finally arms the timer
agentProcessTaskReturn(S0, a) ==
  TheOne({(
    LET S1 == [S EXCEPT !.agentStatus[a] = "COMPLETED"]
        S2 == updateMetrics(S1, a, TRUE, S.tasks[S.agentTask[a]].type)
    IN [S2 EXCEPT !.idleTimer[a] = TRUE, !.agentTask[a] = NoTask]
  ) : S \in {S0}})

\* the catch block: ERROR, metrics, a failed TaskResult, and the finally arms the timer
agentProcessTaskCatch(S0, a) ==
  TheOne({(
    LET S1 == [S EXCEPT !.agentStatus[a] = "ERROR"]
        S2 == updateMetrics(S1, a, FALSE, S.tasks[S.agentTask[a]].type)
    IN [S2 EXCEPT !.idleTimer[a] = TRUE, !.agentTask[a] = NoTask]
  ) : S \in {S0}})

\* processTask rejecting, as it does for an agent class that overrides processTask or the
\* updateMetrics hook with code that throws: ERROR was set, and the finally still runs
agentProcessTaskRaise(S0, a) ==
  TheOne({(
    [S EXCEPT !.agentStatus[a] = "ERROR", !.idleTimer[a] = TRUE, !.agentTask[a] = NoTask]
  ) : S \in {S0}})

\* a timer callback that brings back only an agent that completed its task
agentIdleTimeout_completedOnly(S0, a) ==
  TheOne({(
    [S EXCEPT !.idleTimer[a] = FALSE,
              !.agentStatus[a] = IF @ = "COMPLETED" THEN "IDLE" ELSE @]
  ) : S \in {S0}})

\* the timer callback of the finally block
agentIdleTimeout(S0, a) ==
  TheOne({(
    [S EXCEPT !.idleTimer[a] = FALSE,
              !.agentStatus[a] = IF @ \in {"COMPLETED", "ERROR"} THEN "IDLE" ELSE @]
  ) : S \in {S0}})

\* ----------------------------------------------------------- Orchestrator
IdleLoop == [pc |-> "idle", task |-> NoTask, agent |-> NoAgent]

RunningLoops(S) == {l \in LoopIds : S.loops[l].pc # "idle"}

HasFreshTask(S) == \E t \in DOMAIN S.tasks : S.tasks[t].status = "NONE"

\* uuidv4(): an id no task has had
NewTaskId(S) ==
  CHOOSE t \in DOMAIN S.tasks :
    /\ S.tasks[t].status = "NONE"
    /\ \A u \in DOMAIN S.tasks : u < t => S.tasks[u].status # "NONE"

\* waitForTask's promise: settled by the first resolve or reject only
NoWaiter ==
  [state |-> "unused", taskId |-> NoTask, result |-> NoResult,
   timer |-> FALSE, listener |-> FALSE, settles |-> 0]

cleanup(w) == [w EXCEPT !.timer = FALSE, !.listener = FALSE]

resolve(w, r) ==
  [w EXCEPT !.state = IF @ = "waiting" THEN "resolved" ELSE @,
            !.result = IF w.state = "waiting" THEN r ELSE @,
            !.settles = @ + 1]

reject(w) ==
  [w EXCEPT !.state = IF @ = "waiting" THEN "rejected" ELSE @,
            !.settles = @ + 1]

\* the listener waitForTask registers on 'task:completed'
onComplete_anyId(w, completedId, r) == resolve(cleanup(w), r)

onComplete(w, completedId, r) ==
  IF completedId = w.taskId THEN resolve(cleanup(w), r) ELSE w

\* taskEvents.emit('task:completed', id, result): every registered listener runs
emit(S0, t, r) ==
  TheOne({(
    [S EXCEPT !.events[t] = @ + 1,
              !.waiters = [w \in DOMAIN @ |->
                             IF @[w].listener THEN onComplete(@[w], t, r) ELSE @[w]]]
  ) : S \in {S0}})

\* a wait that sets no timer
waitForTask_noTimer(S0, w, t) ==
  TheOne({(
    IF S.taskResults[t] # NoResult
    THEN [S EXCEPT !.waiters[w] =
            [NoWaiter EXCEPT !.state = "resolved", !.taskId = t,
                             !.result = S.taskResults[t], !.settles = 1]]
    ELSE [S EXCEPT !.waiters[w] =
            [NoWaiter EXCEPT !.state = "waiting", !.taskId = t, !.listener = TRUE]]
  ) : S \in {S0}})

waitForTask(S0, w, t) ==
  TheOne({(
    IF S.taskResults[t] # NoResult
    THEN [S EXCEPT !.waiters[w] =
            [NoWaiter EXCEPT !.state = "resolved", !.taskId = t,
                             !.result = S.taskResults[t], !.settles = 1]]
    ELSE [S EXCEPT !.waiters[w] =
            [NoWaiter EXCEPT !.state = "waiting", !.taskId = t,
                             !.timer = TRUE, !.listener = TRUE]]
  ) : S \in {S0}})

\* the timer callback of waitForTask
waitForTaskTimeout(S0, w) ==
  TheOne({(
    [S EXCEPT !.waiters[w] = reject(cleanup(@))]
  ) : S \in {S0}})

\* a requeue after which the loop is left while `processing` stays set
processTaskNoAgent_loopLeft(S0, l, t) ==
  TheOne({(
    [enqueue(S, t) EXCEPT !.loops[l] = IdleLoop]
  ) : S \in {S0}})

\* processTask where selectAgent returned null: requeue, then `await this.delay(1000)`
processTaskNoAgent(S0, l, t) ==
  TheOne({(
    [enqueue(S, t) EXCEPT !.loops[l] = [pc |-> "delay", task |-> t, agent |-> NoAgent]]
  ) : S \in {S0}})

\* processTask, the try block up to `await agent.processTask(task)` or `await this.delay(1000)`
processTask(S0, l, t) ==
  TheOne({(
    TheOne({(
      IF a = NoAgent
      THEN processTaskNoAgent(S, l, t)
      ELSE LET S1 == [S EXCEPT !.tasks[t].assignedAgentId = a, !.tasks[t].status = "ASSIGNED"]
               S2 == updateTaskStatus(S1, t, "ASSIGNED")
               S3 == updateAgentStatus(S2, a, "ASSIGNED")
               S4 == [incrementLoad(S3, a) EXCEPT !.loadCalls[t].inc = @ + 1]
               S5 == [S4 EXCEPT !.tasks[t].status = "IN_PROGRESS"]
               S6 == updateTaskStatus(S5, t, "IN_PROGRESS")
               S7 == agentProcessTaskStart(S6, a, t)
           IN [S7 EXCEPT !.loops[l] = [pc |-> "awaitAgent", task |-> t, agent |-> a]]
    ) : a \in {selectAgent(S, t)}})
  ) : S \in {S0}})

\* one turn of the while loop of processQueue, up to the await inside processTask
processQueueTurn(S0, l) ==
  TheOne({(
    LET t == dequeueTask(S.queues)
    IN IF t = NoTask
       THEN [S EXCEPT !.processing = FALSE, !.loops[l] = IdleLoop]
       ELSE processTask(dequeue(S), l, t)
  ) : S \in {S0}})

FreeLoop(S) == CHOOSE l \in LoopIds : l \notin RunningLoops(S) /\ \A k \in LoopIds : k < l => k \in RunningLoops(S)

processQueue_flagNotSet(S0) ==
  TheOne({(
    IF S.processing \/ RunningLoops(S) = LoopIds THEN S
    ELSE processQueueTurn(S, FreeLoop(S))
  ) : S \in {S0}})

processQueue(S0) ==
  TheOne({(
    IF S.processing \/ RunningLoops(S) = LoopIds THEN S
    ELSE processQueueTurn([S EXCEPT !.processing = TRUE], FreeLoop(S))
  ) : S \in {S0}})

submitTask(S0, req) ==
  TheOne({(
    LET t == NewTaskId(S)
        S1 == [S EXCEPT !.tasks[t] =
                 [status |-> "PENDING", priority |-> req.priority, type |-> req.type,
                  requiredCapabilities |-> req.requiredCapabilities,
                  assignedAgentId |-> NoAgent, completedAt |-> FALSE]]
        S2 == enqueue(S1, t)
        S3 == IF ~S2.processing THEN processQueue(S2) ELSE S2
    IN [S3 EXCEPT !.ret = Returned("submitTask", t, TRUE)]
  ) : S \in {S0}})

\* processTask after `await agent.processTask(task)` gave a result: lines 118-132
processTaskResult(S0, t, a, r) ==
  TheOne({(
    LET S1 == [S EXCEPT !.taskResults[t] = r, !.resultSets[t] = @ + 1]
        S2 == emit(S1, t, r)
        st == IF r.success THEN "COMPLETED" ELSE "FAILED"
        S3 == updateTaskStatus([S2 EXCEPT !.tasks[t].status = st], t, st)
    IN [decrementLoad(S3, a) EXCEPT !.loadCalls[t].dec = @ + 1]
  ) : S \in {S0}})

\* processTask's catch block: lines 134-142
processTaskCatch_noDecrement(S0, t) ==
  TheOne({(
    updateTaskStatus([S EXCEPT !.tasks[t].status = "FAILED"], t, "FAILED")
  ) : S \in {S0}})

processTaskCatch(S0, t) ==
  TheOne({(
    LET S1 == updateTaskStatus([S EXCEPT !.tasks[t].status = "FAILED"], t, "FAILED")
    IN IF S1.tasks[t].assignedAgentId # NoAgent
       THEN [decrementLoad(S1, S1.tasks[t].assignedAgentId) EXCEPT !.loadCalls[t].dec = @ + 1]
       ELSE S1
  ) : S \in {S0}})

\* what follows `await this.processTask(task)` in processQueue: the next turn of the loop
processQueueResume(S, l) == processQueueTurn(S, l)

\* `await agent.processTask(task)` resumes with a TaskResult
processTaskResolved(S0, l, success) ==
  TheOne({(
    LET t == S.loops[l].task
        a == S.loops[l].agent
        r == [taskId |-> t, success |-> success, agentId |-> a]
    IN processQueueResume(processTaskResult(S, t, a, r), l)
  ) : S \in {S0}})

\* the catch block marks the task FAILED and lets the exception through: the loop is left
processTaskRejected_uncaught(S0, l) ==
  TheOne({(
    [processTaskCatch(S, S.loops[l].task) EXCEPT !.loops[l] = IdleLoop]
  ) : S \in {S0}})

\* `await agent.processTask(task)` resumes with an exception: the catch block, then the loop

processTaskRejected(S0, l) ==
  TheOne({(
    processQueueResume(processTaskCatch(S, S.loops[l].task), l)
  ) : S \in {S0}})

cancelTask_anyStatus(S0, t) ==
  TheOne({(
    IF ~getTask(S, t) THEN [S EXCEPT !.ret = Returned("cancelTask", t, FALSE)]
    ELSE [removeTask(S, t) EXCEPT !.tasks[t].status = "CANCELLED",
                                  !.ret = Returned("cancelTask", t, TRUE)]
  ) : S \in {S0}})

cancelTask(S0, t) ==
  TheOne({(
    IF ~getTask(S, t) THEN [S EXCEPT !.ret = Returned("cancelTask", t, FALSE)]
    ELSE IF S.tasks[t].status \in {"PENDING", "ASSIGNED"}
         THEN [removeTask(S, t) EXCEPT !.tasks[t].status = "CANCELLED",
                                       !.ret = Returned("cancelTask", t, TRUE)]
         ELSE [S EXCEPT !.ret = Returned("cancelTask", t, FALSE)]
  ) : S \in {S0}})

\* ------------------------------------------------ WorkflowManagementSystem
\* execution.steps.find(s => s.stepId === depId): the index of the first such step, 0 for none
RECURSIVE findStep(_, _, _)
findStep(steps, depId, k) ==
  IF k > Len(steps) THEN 0
  ELSE IF steps[k].stepId = depId THEN k
  ELSE findStep(steps, depId, k + 1)

checkDependencies_anyStatus(W, i) ==
  \A depId \in W.template[i].dependencies : findStep(W.steps, depId, 1) # 0

checkDependencies(W, i) ==
  \A depId \in W.template[i].dependencies :
    /\ findStep(W.steps, depId, 1) # 0
    /\ W.steps[findStep(W.steps, depId, 1)].status = "completed"

\* a .catch handler that also drops what the completed steps had stored
executionFailed_rollback(S0, message) ==
  TheOne({(
    [S EXCEPT !.wf.status = "failed", !.wf.error = message, !.wf.pc = "ended",
              !.wf.results = {}]
  ) : S \in {S0}})

\* the .catch handler executeWorkflow hangs on executeWorkflowSteps
executionFailed(S0, message) ==
  TheOne({(
    [S EXCEPT !.wf.status = "failed", !.wf.error = message, !.wf.pc = "ended"]
  ) : S \in {S0}})

\* the for loop of executeWorkflowSteps from step i (counted from 1) up to the await of
\* waitForTask, or to its end; slot 0 of `waiters` is the promise the loop awaits
executeWorkflowSteps(S0, i) ==
  TheOne({(
    IF i > Len(S.wf.template)
    THEN [S EXCEPT !.wf.status = "completed", !.wf.completedAt = TRUE, !.wf.pc = "ended"]
    ELSE IF ~checkDependencies(S.wf, i) THEN executionFailed(S, "dependencies")
    ELSE LET S1 == [S EXCEPT !.wf.steps[i].status = "running", !.wf.currentStep = i - 1]
             S2 == submitTask(S1, [priority |-> "HIGH", type |-> S.wf.template[i].taskType,
                                   requiredCapabilities |-> {}])
         IN TheOne({(
              waitForTask([S3 EXCEPT !.wf.steps[i].taskId = S3.ret.task,
                                     !.wf.submitted[i] = @ + 1,
                                     !.wf.pc = "waiting"],
                          0, S3.ret.task)
            ) : S3 \in {S2}})
  ) : S \in {S0}})

\* a loop that marks the failed step and goes on to the next one
stepSettled_skipFailed(S0) ==
  TheOne({(
    LET i == S.wf.currentStep + 1
        w == S.waiters[0]
    IN IF w.state = "resolved" /\ w.result.success
       THEN executeWorkflowSteps(
              [S EXCEPT !.wf.steps[i].status = "completed",
                        !.wf.results = @ \cup {S.wf.template[i].id}], i + 1)
       ELSE executeWorkflowSteps([S EXCEPT !.wf.steps[i].status = "failed"], i + 1)
  ) : S \in {S0}})

\* executeWorkflowSteps after `await this.orchestrator.waitForTask(...)` settled
stepSettled(S0) ==
  TheOne({(
    LET i == S.wf.currentStep + 1
        w == S.waiters[0]
    IN IF w.state = "resolved" /\ w.result.success
       THEN executeWorkflowSteps(
              [S EXCEPT !.wf.steps[i].status = "completed",
                        !.wf.results = @ \cup {S.wf.template[i].id}], i + 1)
       ELSE executionFailed([S EXCEPT !.wf.steps[i].status = "failed"],
                            IF w.state = "resolved" THEN "step" ELSE "timeout")
  ) : S \in {S0}})

executeWorkflow(S0, template) ==
  TheOne({(
    LET execution ==
          [pc |-> "started", template |-> template, status |-> "pending", currentStep |-> 0,
           steps |-> [i \in 1..Len(template) |->
                        [stepId |-> template[i].id, status |-> "pending", taskId |-> NoTask]],
           results |-> {}, completedAt |-> FALSE, error |-> "none",
           submitted |-> [i \in 1..Len(template) |-> 0]]
        S1 == [S EXCEPT !.wf = [execution EXCEPT !.status = "running"]]
    IN [executeWorkflowSteps(S1, 1) EXCEPT !.ret = Returned("executeWorkflow", NoTask, TRUE)]
  ) : S \in {S0}})

\* getWorkflowStatus(executionId) of the execution; progress in percent, rounded half up;
\* `results` are the step ids that are keys of execution.results, `error` is results.error
getWorkflowStatus(S) ==
  LET totalSteps == Len(S.wf.template)
      divisor == IF totalSteps = 0 THEN 1 ELSE totalSteps
  IN [status |-> S.wf.status,
      progress |-> (200 * S.wf.currentStep + divisor) \div (2 * divisor),
      currentStep |-> S.wf.currentStep,
      totalSteps |-> totalSteps,
      steps |-> S.wf.steps,
      completedAt |-> S.wf.completedAt,
      results |-> S.wf.results,
      error |-> S.wf.error]

\* ------------------------------------------------------------- ModelRouter
\* a router record R holds the Maps of the class: providers is the key order of the
\* providers Map, stats and circuitBreakers are read only at registered names.  openUntil = 0
\* is the undefined of the source, which its test `state.openUntil && ...` treats alike.
\* now is Date.now().  calls, last, failRun and failedAt observe the calls and keep what the
\* providers were asked and answered.
NoStats == [requestCount |-> 0, errorCount |-> 0]

ClosedCircuit == [consecutiveFailures |-> 0, openUntil |-> 0]

NoCall ==
  [preferredProvider |-> NoProvider, replies |-> [n \in ProviderNames |-> FALSE],
   invoked |-> <<>>, ok |-> FALSE, error |-> "none"]

NewRouter ==
  [providers |-> <<>>, defaultProvider |-> "gemini",
   providerStats |-> [n \in ProviderNames |-> NoStats],
   circuitBreakers |-> [n \in ProviderNames |-> ClosedCircuit],
   now |-> 0, calls |-> 0, last |-> NoCall,
   failRun |-> [n \in ProviderNames |-> 0], failedAt |-> [n \in ProviderNames |-> 0]]

registerProvider(R, name) ==
  [R EXCEPT !.providers = IF name \in Range(@) THEN @ ELSE Append(@, name),
            !.providerStats[name] = NoStats,
            !.circuitBreakers[name] = ClosedCircuit,
            !.failRun[name] = 0]

setDefaultProvider(R, name) ==
  IF name \notin Range(R.providers) THEN R ELSE [R EXCEPT !.defaultProvider = name]

isProviderAvailable(R, name) ==
  ~(R.circuitBreakers[name].openUntil # 0 /\ R.now < R.circuitBreakers[name].openUntil)

recordFailure(R, name) ==
  LET failures == R.circuitBreakers[name].consecutiveFailures + 1
  IN [R EXCEPT !.circuitBreakers[name] =
        [consecutiveFailures |-> failures,
         openUntil |-> IF failures >= failureThreshold THEN R.now + cooldownMs
                       ELSE @.openUntil]]

recordSuccess(R, name) ==
  [R EXCEPT !.circuitBreakers[name] = ClosedCircuit]

\* provider.generate(prompt, options) is awaited: the provider resolves when replies[name]
providerGenerate(R, name) ==
  [R EXCEPT !.last.invoked = Append(@, name),
            !.failRun[name] = IF R.last.replies[name] THEN 0 ELSE @ + 1,
            !.failedAt[name] = IF R.last.replies[name] THEN @ ELSE R.now]

\* the name of the provider selected, NoProvider where the source throws
selectProvider(R, preferredProvider) ==
  IF /\ preferredProvider # NoProvider
     /\ preferredProvider \in Range(R.providers)
     /\ isProviderAvailable(R, preferredProvider)
  THEN preferredProvider
  ELSE IF \E k \in 1..Len(R.providers) : isProviderAvailable(R, R.providers[k])
  THEN R.providers[CHOOSE k \in 1..Len(R.providers) :
                     /\ isProviderAvailable(R, R.providers[k])
                     /\ \A j \in 1..(k - 1) : ~isProviderAvailable(R, R.providers[j])]
  ELSE NoProvider

returned(R) == [R EXCEPT !.last.ok = TRUE]

thrown(R, error) == [R EXCEPT !.last.ok = FALSE, !.last.error = error]

\* the for loop of generateWithFallback from the k-th entry of the providers Map on
RECURSIVE generateWithFallback(_, _, _)
generateWithFallback(R, excludeProvider, k) ==
  IF k > Len(R.providers) THEN thrown(R, "All providers failed")
  ELSE IF R.providers[k] # excludeProvider /\ isProviderAvailable(R, R.providers[k])
  THEN IF R.last.replies[R.providers[k]]
       THEN returned(recordSuccess(providerGenerate(R, R.providers[k]), R.providers[k]))
       ELSE generateWithFallback(
              recordFailure(providerGenerate(R, R.providers[k]), R.providers[k]),
              excludeProvider, k + 1)
  ELSE generateWithFallback(R, excludeProvider, k + 1)

\* the catch block of generate
generateCatch(R, provider, preferredProvider) ==
  LET R1 == recordFailure([R EXCEPT !.providerStats[provider].errorCount = @ + 1], provider)
  IN IF preferredProvider # NoProvider /\ Len(R1.providers) > 1
     THEN generateWithFallback(R1, provider, 1)
     ELSE thrown(R1, "provider")

\* the try block of generate: recordSuccess runs before the provider is awaited
generateTry(R, provider, preferredProvider) ==
  LET R1 == recordSuccess([R EXCEPT !.providerStats[provider].requestCount = @ + 1], provider)
      R2 == providerGenerate(R1, provider)
  IN IF R2.last.replies[provider] THEN returned(R2)
     ELSE generateCatch(R2, provider, preferredProvider)

generate(R0, preferredProvider, replies) ==
  LET R == [R0 EXCEPT !.calls = @ + 1,
                      !.last = [NoCall EXCEPT !.preferredProvider = preferredProvider,
                                              !.replies = replies]]
      provider == selectProvider(R, preferredProvider)
  IN IF provider = NoProvider THEN thrown(R, "No providers available")
     ELSE IF ~isProviderAvailable(R, provider) THEN generateWithFallback(R, provider, 1)
     ELSE generateTry(R, provider, preferredProvider)

\* embed: the provider named, or the default one, is asked whatever its circuit's state
embed(R0, providerName) ==
  LET R == [R0 EXCEPT !.calls = @ + 1,
                      !.last = [NoCall EXCEPT !.preferredProvider = providerName]]
      name == IF providerName # NoProvider THEN providerName ELSE R.defaultProvider
  IN IF name \notin Range(R.providers) THEN thrown(R, "not found")
     ELSE returned([R EXCEPT !.last.invoked = Append(@, name)])

\* ------------------------------------------------------------ initial state
NoMetrics ==
  [totalTasks |-> 0, successfulTasks |-> 0, taskTypeMetrics |-> [ty \in TaskTypes |-> 0]]

NoWorkflow ==
  [pc |-> "none", template |-> <<>>, status |-> "none", currentStep |-> 0, steps |-> <<>>,
   results |-> {}, completedAt |-> FALSE, error |-> "none", submitted |-> <<>>]

\* after construction and registerAgent: every agent IDLE with load 0, nothing queued
InitWith(ids, registered) ==
  /\ tasks = [t \in ids |-> NoTaskRecord]
  /\ queues = [p \in Priorities |-> <<>>]
  /\ activeTasks = {}
  /\ completedTasks = {}
  /\ arrival = <<>>
  /\ ret = Returned("new", NoTask, FALSE)
  /\ processing = FALSE
  /\ loops = [l \in LoopIds |-> IdleLoop]
  /\ taskResults = [t \in ids |-> NoResult]
  /\ resultSets = [t \in ids |-> 0]
  /\ events = [t \in ids |-> 0]
  /\ loadCalls = [t \in ids |-> [inc |-> 0, dec |-> 0]]
  /\ waiters = [w \in WaiterIds |-> NoWaiter]
  /\ agentStatus = [a \in registered |-> "IDLE"]
  /\ agentTask = [a \in registered |-> NoTask]
  /\ idleTimer = [a \in registered |-> FALSE]
  /\ currentLoad = [a \in registered |-> 0]
  /\ metrics = [a \in registered |-> NoMetrics]
  /\ wf = NoWorkflow
  /\ router = NewRouter

\* ------------------------------------------- the TaskQueue driven on its own
TQInit == InitWith(1..MaxQueueTasks, Agents)

\* enqueue of a new task object, or again of one that dequeue handed out
TQ_enqueue ==
  \E t \in DOMAIN tasks, p \in Priorities :
    /\ t \notin queuedIds(queues)
    /\ IF tasks[t].status = "NONE"
       THEN /\ t = NewTaskId(Cur)
            /\ Commit([enqueue([Cur EXCEPT !.tasks[t] =
                          [NoTaskRecord EXCEPT !.status = "PENDING", !.priority = p]], t)
                        EXCEPT !.ret = Returned("enqueue", t, TRUE)])
       ELSE /\ p = tasks[t].priority
            /\ t \in activeTasks
            /\ Commit([enqueue(Cur, t) EXCEPT !.ret = Returned("enqueue", t, TRUE)])

TQ_dequeue ==
  /\ ret' = Returned("dequeue", dequeueTask(queues), dequeueTask(queues) # NoTask)
  /\ Commit([dequeue(Cur) EXCEPT !.ret = ret'])

TQNext == TQ_enqueue \/ TQ_dequeue

SpecTQ == TQInit /\ [][TQNext]_vars

PriorityRank(p) ==
  CASE p = "CRITICAL" -> 1 [] p = "HIGH" -> 2 [] p = "MEDIUM" -> 3 [] p = "LOW" -> 4

\* position of the first entry for t in the enqueue order
RECURSIVE ArrivalIndex(_, _)
ArrivalIndex(arr, t) ==
  IF arr = <<>> THEN 1
  ELSE IF Head(arr) = t THEN 1
  ELSE 1 + ArrivalIndex(Tail(arr), t)

\* C1: every dequeue returns a task of the highest-priority level that holds one, and of
\* that level's tasks the one enqueued earliest; it returns null only when all four
\* levels are empty.
C1_DequeueOrder ==
  [][TQ_dequeue =>
       LET r == ret'.task
           pending == Range(arrival)
       IN IF r = NoTask
          THEN \A p \in Priorities : Len(queues[p]) = 0
          ELSE /\ r \in pending
               /\ \A u \in pending :
                    /\ PriorityRank(tasks[r].priority) <= PriorityRank(tasks[u].priority)
                    /\ tasks[u].priority = tasks[r].priority
                         => ArrivalIndex(arrival, r) <= ArrivalIndex(arrival, u)]_vars

\* a dequeue that left behind a later task of its own level and a task of a lower level
C1_Witness ==
  /\ ret.op = "dequeue"
  /\ ret.task # NoTask
  /\ \E u, v \in Range(arrival) \ {ret.task} :
       /\ tasks[u].priority = tasks[ret.task].priority
       /\ PriorityRank(tasks[v].priority) > PriorityRank(tasks[ret.task].priority)

\* ------------------------------------------------- the Orchestrator at work
\* one registered agent, so that a second task can find no agent IDLE
Init == InitWith(TaskIds, {"dev"})

\* what callers submit: title and description are opaque, these fields are not
TaskRequests ==
  {[priority |-> "LOW", type |-> "GENERAL", requiredCapabilities |-> {}],
   [priority |-> "CRITICAL", type |-> "TESTING", requiredCapabilities |-> {"test-generation"}]}

SubmitTask ==
  \E req \in TaskRequests :
    /\ HasFreshTask(Cur)
    /\ Commit(submitTask(Cur, req))

WaitSubmitTask ==
  /\ HasFreshTask(Cur)
  /\ Commit(submitTask(Cur, [priority |-> "MEDIUM", type |-> "GENERAL", requiredCapabilities |-> {}]))

CancelTask ==
  \E t \in DOMAIN tasks :
    Commit(cancelTask(Cur, t))

WaitForTask ==
  \E w \in 1..MaxWaiters, t \in DOMAIN tasks :
    /\ waiters[w].state = "unused"
    /\ tasks[t].status # "NONE"
    /\ Commit(waitForTask(Cur, w, t))

WaitForTaskTimeout ==
  \E w \in WaiterIds :
    /\ waiters[w].timer
    /\ Resume(waitForTaskTimeout(Cur, w))

\* delay(1000) elapsed in the no-agent branch: processTask returns, the loop turns
DelayElapsed ==
  \E l \in LoopIds :
    /\ loops[l].pc = "delay"
    /\ Resume(processQueueResume(Cur, l))

\* the three awaits of Agent.processTask; the Orchestrator's await resumes in the same job
\* queue turn as the agent's return, before any timer or request
AgentAnalyzed ==
  \E a \in DOMAIN agentStatus :
    /\ agentStatus[a] = "THINKING"
    /\ agentTask[a] # NoTask
    /\ Resume([Cur EXCEPT !.agentStatus[a] = "EXECUTING"])

AgentExecuted ==
  \E a \in DOMAIN agentStatus :
    /\ agentStatus[a] = "EXECUTING"
    /\ agentTask[a] # NoTask
    /\ Resume([Cur EXCEPT !.agentStatus[a] = "VALIDATING"])

AgentValidated ==
  \E a \in DOMAIN agentStatus, l \in LoopIds :
    /\ agentStatus[a] = "VALIDATING"
    /\ agentTask[a] # NoTask
    /\ loops[l].pc = "awaitAgent"
    /\ loops[l].agent = a
    /\ Resume(processTaskResolved(agentProcessTaskReturn(Cur, a), l, TRUE))

\* analyzeTask, execute or validate threw, or validation.isValid was false
AgentFailed ==
  \E a \in DOMAIN agentStatus, l \in LoopIds :
    /\ agentStatus[a] \in {"THINKING", "EXECUTING", "VALIDATING"}
    /\ agentTask[a] # NoTask
    /\ loops[l].pc = "awaitAgent"
    /\ loops[l].agent = a
    /\ Resume(processTaskResolved(agentProcessTaskCatch(Cur, a), l, FALSE))

\* the agent's processTask rejects: an agent class whose override lets the exception out
AgentRaised ==
  \E a \in DOMAIN agentStatus, l \in LoopIds :
    /\ agentStatus[a] \in {"THINKING", "EXECUTING", "VALIDATING"}
    /\ agentTask[a] # NoTask
    /\ loops[l].pc = "awaitAgent"
    /\ loops[l].agent = a
    /\ Resume(processTaskRejected(agentProcessTaskRaise(Cur, a), l))

AgentIdleTimeout ==
  \E a \in DOMAIN agentStatus :
    /\ idleTimer[a]
    /\ Resume(agentIdleTimeout(Cur, a))

Next ==
  \/ SubmitTask
  \/ CancelTask
  \/ DelayElapsed
  \/ AgentAnalyzed
  \/ AgentExecuted
  \/ AgentValidated
  \/ AgentFailed
  \/ AgentRaised
  \/ AgentIdleTimeout

Spec == Init /\ [][Next]_vars

\* --------------------------------------------- the Orchestrator with waiters
WaitInit == InitWith(1..MaxWaitTasks, {"dev"})

WaitNext ==
  \/ WaitSubmitTask
  \/ WaitForTask
  \/ WaitForTaskTimeout
  \/ DelayElapsed
  \/ AgentAnalyzed
  \/ AgentExecuted
  \/ AgentValidated
  \/ AgentFailed
  \/ AgentRaised
  \/ AgentIdleTimeout

SpecWait == WaitInit /\ [][WaitNext]_vars

\* fairness: timers fire, and every awaited agent call settles
AgentStep == AgentAnalyzed \/ AgentExecuted \/ AgentValidated \/ AgentFailed \/ AgentRaised

LiveTaskIds == 1..MaxLiveTasks

LiveInit == InitWith(LiveTaskIds, {"dev"})

SpecLive ==
  /\ LiveInit
  /\ [][Next]_vars
  /\ WF_vars(DelayElapsed)
  /\ WF_vars(AgentIdleTimeout)
  /\ WF_vars(AgentStep)

\* ------------------------------------------------- a workflow being executed
\* a step id no step of a template has
UnknownStep == 0

\* the templates addCustomTemplate can add: step i has id i and any dependencies
WorkflowTemplates ==
  UNION {{[i \in 1..n |-> [id |-> i, taskType |-> "GENERAL", dependencies |-> deps[i]]] :
            deps \in [1..n -> SUBSET (1..MaxSteps \cup {UnknownStep})]}
           : n \in 1..MaxSteps}

WFInit == InitWith(1..(MaxSteps + maxAttempts - 1), {"dev"})

ExecuteWorkflow ==
  \E template \in WorkflowTemplates :
    /\ wf.pc = "none"
    /\ Commit(executeWorkflow(Cur, template))

StepSettled ==
  /\ wf.pc = "waiting"
  /\ waiters[0].state \in {"resolved", "rejected"}
  /\ Resume(stepSettled(Cur))

WFNext ==
  \/ ExecuteWorkflow
  \/ StepSettled
  \/ WaitForTaskTimeout
  \/ DelayElapsed
  \/ AgentAnalyzed
  \/ AgentExecuted
  \/ AgentValidated
  \/ AgentFailed
  \/ AgentRaised
  \/ AgentIdleTimeout

SpecWF == WFInit /\ [][WFNext]_vars

\* ------------------------------- workflows whose steps name an agent type
\* both agents registered; a template's steps have no dependencies and name any of the
\* two agent types and task types
TypedTemplates ==
  UNION {{[i \in 1..n |-> [id |-> i, taskType |-> taskTypes[i], agentType |-> agentTypes[i],
                           dependencies |-> {}]] :
            taskTypes \in [1..n -> {"CODE_GENERATION", "TESTING"}],
            agentTypes \in [1..n -> {"DEVELOPER", "QA"}]}
           : n \in 1..MaxTypedSteps}

TypedInit == InitWith(1..MaxTypedSteps, Agents)

ExecuteTypedWorkflow ==
  \E template \in TypedTemplates :
    /\ wf.pc = "none"
    /\ Commit(executeWorkflow(Cur, template))

TypedNext ==
  \/ ExecuteTypedWorkflow
  \/ StepSettled
  \/ WaitForTaskTimeout
  \/ AgentAnalyzed
  \/ AgentExecuted
  \/ AgentValidated
  \/ AgentFailed
  \/ AgentRaised
  \/ AgentIdleTimeout

SpecTyped == TypedInit /\ [][TypedNext]_vars

\* the same, with the timers firing and the continuations of settled promises running;
\* an agent may take for ever
SpecWFLive ==
  /\ WFInit
  /\ [][WFNext]_vars
  /\ WF_vars(StepSettled)
  /\ WF_vars(WaitForTaskTimeout)

\* --------------------------- the TaskQueue with status updates and removals
TQSInit == InitWith(1..MaxStatusTasks, Agents)

\* the status updates a caller makes for a task it dequeued, in the order of TaskStatus
TQS_updateTaskStatus ==
  \E t \in activeTasks, s \in TaskStatuses :
    /\ StatusRank(s) > StatusRank(tasks[t].status)
    /\ s \in {"ASSIGNED", "IN_PROGRESS", "COMPLETED", "FAILED"}
    /\ Commit([updateTaskStatus(Cur, t, s) EXCEPT !.ret = Returned("updateTaskStatus", t, TRUE)])

TQS_removeTask ==
  \E t \in DOMAIN tasks :
    Commit([removeTask(Cur, t) EXCEPT !.ret = Returned("removeTask", t, removeTaskResult(Cur, t))])

\* enqueue of a new task at one of two levels, or again of one that dequeue handed out
TQS_enqueue ==
  \E t \in DOMAIN tasks, p \in {"HIGH", "LOW"} :
    /\ t \notin queuedIds(queues)
    /\ IF tasks[t].status = "NONE"
       THEN /\ t = NewTaskId(Cur)
            /\ Commit([enqueue([Cur EXCEPT !.tasks[t] =
                          [NoTaskRecord EXCEPT !.status = "PENDING", !.priority = p]], t)
                        EXCEPT !.ret = Returned("enqueue", t, TRUE)])
       ELSE /\ p = tasks[t].priority
            /\ t \in activeTasks
            /\ tasks[t].status = "PENDING"
            /\ Commit([enqueue(Cur, t) EXCEPT !.ret = Returned("enqueue", t, TRUE)])

TQSNext == TQS_enqueue \/ TQ_dequeue \/ TQS_updateTaskStatus \/ TQS_removeTask

SpecTQS == TQSInit /\ [][TQSNext]_vars

\* ------------------------------------------------ the AgentSelector's scores
\* calculateScore is applied to an agent and a task after every change of what it reads:
\* the task, the agents' metrics, the registry's loads.  ret holds the factors and the score
\* of the latest application and of the one before it.
ScoreInit == InitWith(1..1, Agents)

ScoreTasks ==
  [type : {"CODE_GENERATION", "GENERAL"},
   requiredCapabilities : SUBSET {"code-generation", "test-generation"}]

scored(S, a) ==
  [op |-> "calculateScore", agent |-> a,
   factors |-> scoreFactors(S, a, S.tasks[1]),
   score |-> calculateScore(S, a, S.tasks[1]),
   before |-> IF S.ret.op = "calculateScore"
              THEN [factors |-> S.ret.factors, score |-> S.ret.score]
              ELSE [factors |-> scoreFactors(S, a, S.tasks[1]),
                    score |-> calculateScore(S, a, S.tasks[1])]]

\* the task is given, or replaced; the agent scored stays the one of the first application
ScoreTask ==
  \E a \in Agents, task \in ScoreTasks :
    /\ ret.op = "calculateScore" => a = ret.agent
    /\ \E S \in {[Cur EXCEPT !.tasks[1] =
                    [NoTaskRecord EXCEPT !.status = "PENDING", !.type = task.type,
                                         !.requiredCapabilities = task.requiredCapabilities]]} :
         Commit([S EXCEPT !.ret = scored(S, a)])

\* the agent scored finished a task
ScoreMetrics ==
  \E success \in BOOLEAN, taskType \in {"CODE_GENERATION", "GENERAL"} :
    /\ ret.op = "calculateScore"
    /\ metrics[ret.agent].totalTasks < MaxScoreTasks
    /\ \E S \in {updateMetrics(Cur, ret.agent, success, taskType)} :
         Commit([S EXCEPT !.ret = scored(S, ret.agent)])

ScoreLoadUp ==
  \E a \in Agents :
    /\ ret.op = "calculateScore"
    /\ currentLoad[a] < MaxScoreLoad
    /\ \E S \in {incrementLoad(Cur, a)} :
         Commit([S EXCEPT !.ret = scored(S, ret.agent)])

ScoreLoadDown ==
  \E a \in Agents :
    /\ ret.op = "calculateScore"
    /\ currentLoad[a] > 0
    /\ \E S \in {decrementLoad(Cur, a)} :
         Commit([S EXCEPT !.ret = scored(S, ret.agent)])

ScoreNext == ScoreTask \/ ScoreMetrics \/ ScoreLoadUp \/ ScoreLoadDown

SpecScore == ScoreInit /\ [][ScoreNext]_vars

\* ---------------------------------------------- the AgentSelector's choice
\* selectAgent is called for a task between changes of the agents' statuses, metrics and
\* loads; ret holds the agent it returned
SelectInit == InitWith(1..1, Agents)

SelectAgent ==
  \E task \in ScoreTasks :
    \E S \in {[Cur EXCEPT !.tasks[1] =
                 [NoTaskRecord EXCEPT !.status = "PENDING", !.type = task.type,
                                      !.requiredCapabilities = task.requiredCapabilities]]} :
      Commit([S EXCEPT !.ret = [op |-> "selectAgent", task |-> 1, ok |-> selectAgent(S, 1) # NoAgent,
                                agent |-> selectAgent(S, 1)]])

SelectStatus ==
  \E a \in Agents, st \in {"IDLE", "BUSY"} :
    /\ agentStatus[a] # st
    /\ Resume(updateAgentStatus(Cur, a, st))

SelectMetrics ==
  \E a \in Agents, success \in BOOLEAN, taskType \in {"CODE_GENERATION", "GENERAL"} :
    /\ metrics[a].totalTasks < MaxSelectTasks
    /\ Resume(updateMetrics(Cur, a, success, taskType))

SelectLoadUp ==
  \E a \in Agents :
    /\ currentLoad[a] < MaxSelectLoad
    /\ Resume(incrementLoad(Cur, a))

SelectLoadDown ==
  \E a \in Agents :
    /\ currentLoad[a] > 0
    /\ Resume(decrementLoad(Cur, a))

SelectNext == SelectAgent \/ SelectStatus \/ SelectMetrics \/ SelectLoadUp \/ SelectLoadDown

SpecSelect == SelectInit /\ [][SelectNext]_vars

\* ------------------------------------------------ Agent.processTask on its own
\* processTask is called for one task after another; the three phases are the subclass's
\* and end as their caller's inputs say.  ret holds the phases called so far, the phase
\* that failed (0 for none) and how the call ended.
AgentInit == InitWith(1..MaxAgentTasks, {"dev"})

Phases == <<"analyzeTask", "execute", "validate">>

\* error instanceof Error ? error.message : 'Unknown error'
errorMessage(error) == IF error = "Error" THEN "message" ELSE "Unknown error"

processTaskCalled(S0, a, t) ==
  TheOne({(
    [agentProcessTaskStart(S, a, t) EXCEPT
       !.ret = [op |-> "processTask", task |-> t, ok |-> FALSE, phases |-> <<Phases[1]>>,
                failedAt |-> 0, outcome |-> "pending", error |-> "none"]]
  ) : S \in {S0}})

\* the awaited phase resolved: the next phase is called
nextPhase(S0, a) ==
  TheOne({(
    [S EXCEPT !.agentStatus[a] = IF @ = "THINKING" THEN "EXECUTING" ELSE "VALIDATING",
              !.ret.phases = Append(@, Phases[Len(@) + 1])]
  ) : S \in {S0}})

\* the catch block letting the exception out
processTaskCaught_rethrows(S0, a, message) ==
  TheOne({(
    [agentProcessTaskRaise(S, a) EXCEPT !.ret.outcome = "threw", !.ret.failedAt = Len(S.ret.phases)]
  ) : S \in {S0}})

\* the catch block: the failed TaskResult is returned
processTaskCaught(S0, a, message) ==
  TheOne({(
    [agentProcessTaskCatch(S, a) EXCEPT !.ret.outcome = "returned", !.ret.ok = FALSE,
                                        !.ret.error = message,
                                        !.ret.failedAt = Len(S.ret.phases)]
  ) : S \in {S0}})

\* validate resolved: the result is returned, or the validation failure is thrown and caught
processTaskValidated(S0, a, isValid) ==
  TheOne({(
    IF isValid
    THEN [agentProcessTaskReturn(S, a) EXCEPT !.ret.outcome = "returned", !.ret.ok = TRUE]
    ELSE processTaskCaught(S, a, "Validation failed")
  ) : S \in {S0}})

AgentProcessTask ==
  \E a \in DOMAIN agentStatus, taskType \in {"CODE_GENERATION", "GENERAL"} :
    /\ HasFreshTask(Cur)
    /\ agentTask[a] = NoTask
    /\ Commit(processTaskCalled([Cur EXCEPT !.tasks[NewTaskId(Cur)] =
                [NoTaskRecord EXCEPT !.status = "IN_PROGRESS", !.type = taskType]],
              a, NewTaskId(Cur)))

AgentPhaseResolved ==
  \E a \in DOMAIN agentStatus :
    /\ agentTask[a] # NoTask
    /\ agentStatus[a] \in {"THINKING", "EXECUTING"}
    /\ Commit(nextPhase(Cur, a))

AgentValidateResolved ==
  \E a \in DOMAIN agentStatus, isValid \in BOOLEAN :
    /\ agentTask[a] # NoTask
    /\ agentStatus[a] = "VALIDATING"
    /\ Commit(processTaskValidated(Cur, a, isValid))

AgentPhaseThrew ==
  \E a \in DOMAIN agentStatus, error \in {"Error", "other"} :
    /\ agentTask[a] # NoTask
    /\ agentStatus[a] \in {"THINKING", "EXECUTING", "VALIDATING"}
    /\ Commit(processTaskCaught(Cur, a, errorMessage(error)))

AgentTimer ==
  \E a \in DOMAIN agentStatus :
    /\ idleTimer[a]
    /\ Commit(agentIdleTimeout(Cur, a))

AgentNext ==
  \/ AgentProcessTask
  \/ AgentPhaseResolved
  \/ AgentValidateResolved
  \/ AgentPhaseThrew
  \/ AgentTimer

SpecAgent == AgentInit /\ [][AgentNext]_vars

\* ------------------------------------------------ the inputs of a workflow's steps
\* Strings are sequences of characters.  Step ids and input keys come from the same
\* names; the caller's value for key k is [from |-> "caller", key |-> k] and the result of
\* the step with id x is [from |-> "step", id |-> x].  ret holds the execution: `results`
\* is execution.results, and `stored` remembers what each completed step stored.
Names == {<<"a">>, <<"b">>}

fromPrefix == <<"f", "r", "o", "m", "_">>

inputWord == <<"i", "n", "p", "u", "t">>

InputValues == {inputWord, <<"x">>} \cup {fromPrefix \o n : n \in Names}

\* value.startsWith(prefix)
startsWith(value, prefix) ==
  /\ Len(value) >= Len(prefix)
  /\ SubSeq(value, 1, Len(prefix)) = prefix

\* value.substring(5)
substring(value, start) == SubSeq(value, start + 1, Len(value))

\* object[key], undefined for a key the object does not have
lookup(object, key) == IF key \in DOMAIN object THEN object[key] ELSE "undefined"

prepareStepInputs(step, execution) ==
  [key \in DOMAIN step.inputs |->
     LET value == step.inputs[key]
     IN IF startsWith(value, fromPrefix)
        THEN lookup(execution.results, substring(value, 5))
        ELSE IF value = inputWord THEN lookup(execution.results, key)
        ELSE value]

\* execution.results[step.id] = result.result
storeResult(results, id, result) ==
  [key \in DOMAIN results \cup {id} |-> IF key = id THEN result ELSE results[key]]

InputSteps == [id : Names, inputs : UNION {[{key} -> InputValues] : key \in Names}]

\* templates whose steps have different ids
InputTemplates ==
  UNION {{template \in [1..n -> InputSteps] :
            \A i, k \in 1..n : i # k => template[i].id # template[k].id}
           : n \in 1..MaxInputSteps}

InitialInputs ==
  UNION {{[key \in keys |-> [from |-> "caller", key |-> key]]} : keys \in SUBSET Names}

InputsInit == InitWith(1..1, {"dev"})

InputsExecuteWorkflow ==
  \E template \in InputTemplates, initialInputs \in InitialInputs :
    /\ ret.op = "new"
    /\ Commit([Cur EXCEPT !.ret =
         [op |-> "executeWorkflow", task |-> NoTask, ok |-> TRUE, pc |-> "prepare",
          template |-> template, initialInputs |-> initialInputs,
          results |-> initialInputs, stored |-> <<>>, currentStep |-> 0,
          inputs |-> <<>>]])

InputsPrepare ==
  /\ ret.op = "executeWorkflow"
  /\ ret.pc = "prepare"
  /\ Commit([Cur EXCEPT !.ret.inputs = prepareStepInputs(ret.template[ret.currentStep + 1], ret),
                        !.ret.pc = "waiting"])

InputsStepSettled ==
  \E success \in BOOLEAN :
    /\ ret.op = "executeWorkflow"
    /\ ret.pc = "waiting"
    /\ LET step == ret.template[ret.currentStep + 1]
           result == [from |-> "step", id |-> step.id]
       IN IF success
          THEN Commit([Cur EXCEPT
                 !.ret.results = storeResult(@, step.id, result),
                 !.ret.stored = storeResult(@, step.id, result),
                 !.ret.currentStep = @ + 1,
                 !.ret.pc = IF ret.currentStep + 1 < Len(ret.template)
                            THEN "prepare" ELSE "ended"])
          ELSE Commit([Cur EXCEPT !.ret.pc = "ended", !.ret.ok = FALSE])

InputsNext ==
  \/ InputsExecuteWorkflow
  \/ InputsPrepare
  \/ InputsStepSettled

SpecInputs == InputsInit /\ [][InputsNext]_vars

\* ------------------------------------------------ the ModelRouter at work
\* a call of generate is taken with the replies of the providers it reaches; the clock
\* moves between calls
orchestration == <<tasks, queues, activeTasks, completedTasks, arrival, ret, processing,
                   loops, taskResults, resultSets, events, loadCalls, waiters, agentStatus,
                   agentTask, idleTimer, currentLoad, metrics, wf>>

RouterInit == InitWith(1..1, {"dev"})

RegisterProvider ==
  \E name \in ProviderNames :
    /\ name \notin Range(router.providers)
    /\ router' = registerProvider(router, name)
    /\ UNCHANGED orchestration

SetDefaultProvider ==
  \E name \in ProviderNames :
    /\ name \in Range(router.providers)
    /\ router' = setDefaultProvider(router, name)
    /\ UNCHANGED orchestration

Generate ==
  \E preferredProvider \in ProviderNames \cup {NoProvider},
     replies \in [ProviderNames -> BOOLEAN] :
    /\ router.calls < MaxCalls
    /\ router' = generate(router, preferredProvider, replies)
    /\ UNCHANGED orchestration

ClockTick ==
  /\ router.now < MaxClockTicks * (cooldownMs \div TicksPerCooldown)
  /\ router' = [router EXCEPT !.now = @ + cooldownMs \div TicksPerCooldown]
  /\ UNCHANGED orchestration

RouterNext == RegisterProvider \/ SetDefaultProvider \/ Generate \/ ClockTick

SpecRouter == RouterInit /\ [][RouterNext]_vars

\* the same router with embed calls among the others
Embed ==
  \E providerName \in ProviderNames \cup {NoProvider} :
    /\ router.calls < MaxCalls
    /\ router' = embed(router, providerName)
    /\ UNCHANGED orchestration

EmbedNext == RegisterProvider \/ SetDefaultProvider \/ Generate \/ Embed \/ ClockTick

SpecEmbed == RouterInit /\ [][EmbedNext]_vars

\* ----------------------------------- three submissions to an idle Orchestrator
\* the priorities of the three tasks, in the order of their submitTask calls; the one
\* registered agent supports their type
ScenarioPriorities == <<"LOW", "CRITICAL", "MEDIUM">>

ScenarioInit == InitWith(1..Len(ScenarioPriorities), {"dev"})

ScenarioSubmitTask ==
  /\ HasFreshTask(Cur)
  /\ Commit(submitTask(Cur, [priority |-> ScenarioPriorities[NewTaskId(Cur)],
                             type |-> "CODE_GENERATION", requiredCapabilities |-> {}]))

ScenarioNext ==
  \/ ScenarioSubmitTask
  \/ DelayElapsed
  \/ AgentAnalyzed
  \/ AgentExecuted
  \/ AgentValidated
  \/ AgentFailed
  \/ AgentRaised
  \/ AgentIdleTimeout

SpecScenario == ScenarioInit /\ [][ScenarioNext]_vars

\* ---------------------------------------------------------------- claims
InFlight(a) == {l \in LoopIds : loops[l].pc = "awaitAgent" /\ loops[l].agent = a}

Dispatched(t) == \E l \in LoopIds : loops[l].pc = "awaitAgent" /\ loops[l].task = t

\* C2: every dispatch makes one incrementLoad and, once it is over, by a result of either
\* kind or by an exception, exactly one decrementLoad; an agent's load is the number of
\* its dispatches still running, so it is back at its earlier value when they are over.
C2_LoadPaired ==
  /\ \A t \in DOMAIN tasks :
       /\ loadCalls[t].inc <= 1
       /\ Dispatched(t) => loadCalls[t].inc = 1 /\ loadCalls[t].dec = 0
       /\ ~Dispatched(t) => loadCalls[t].dec = loadCalls[t].inc
       /\ tasks[t].status \in {"COMPLETED", "FAILED"} => loadCalls[t].inc = 1
  /\ \A a \in DOMAIN currentLoad : currentLoad[a] = Cardinality(InFlight(a))

\* a dispatch that ended by an exception, paired, and the agent's load back at 0
C2_Witness ==
  \E t \in DOMAIN tasks :
    /\ tasks[t].status = "FAILED"
    /\ taskResults[t] = NoResult
    /\ loadCalls[t] = [inc |-> 1, dec |-> 1]
    /\ currentLoad[tasks[t].assignedAgentId] = 0

\* C3: a task's status only moves forward, PENDING, ASSIGNED, IN_PROGRESS, then one of
\* COMPLETED, FAILED, CANCELLED; it never goes back and never leaves a terminal status.
C3_StatusForward ==
  [][\A t \in DOMAIN tasks :
       /\ StatusRank(tasks'[t].status) >= StatusRank(tasks[t].status)
       /\ tasks[t].status \in TerminalStatuses => tasks'[t].status = tasks[t].status]_vars

\* C4: cancelTask returns true only for a PENDING or ASSIGNED task, which it leaves
\* CANCELLED; for any other task or id it returns false and changes neither a status,
\* nor the queue's three collections, nor a load.
C4_CancelOnlyBeforeStart ==
  [][CancelTask =>
       LET t == ret'.task
       IN /\ ret'.op = "cancelTask"
          /\ ret'.ok <=> (getTask(Cur, t) /\ tasks[t].status \in {"PENDING", "ASSIGNED"})
          /\ ret'.ok => tasks'[t].status = "CANCELLED"
          /\ ~ret'.ok => /\ tasks' = tasks
                         /\ queues' = queues
                         /\ activeTasks' = activeTasks
                         /\ completedTasks' = completedTasks
                         /\ currentLoad' = currentLoad]_vars

\* a refused cancellation of the task in flight
C4_Witness ==
  /\ ret.op = "cancelTask"
  /\ ~ret.ok
  /\ tasks[ret.task].status = "IN_PROGRESS"

\* C5: at most one activation of processQueue is running and at most one task is ASSIGNED
\* or IN_PROGRESS, whenever submitTask is called.
C5_SingleFlight ==
  /\ Cardinality(RunningLoops(Cur)) <= 1
  /\ Cardinality({t \in DOMAIN tasks : tasks[t].status \in {"ASSIGNED", "IN_PROGRESS"}}) <= 1
  /\ RunningLoops(Cur) # {} => processing

\* a submitTask that came while the loop sat in its no-agent delay, another task in flight before
C5_Witness ==
  \E l \in LoopIds :
    /\ loops[l].pc = "delay"
    /\ ret.op = "submitTask"
    /\ ret.task # loops[l].task
    /\ \E u \in DOMAIN tasks : tasks[u].status \in {"COMPLETED", "FAILED"}

\* C6: every COMPLETED or FAILED task has exactly one TaskResult stored under its id and
\* exactly one completion event emitted for its id.
C6_OneResultOneEvent ==
  \A t \in DOMAIN tasks :
    tasks[t].status \in {"COMPLETED", "FAILED"} =>
      /\ resultSets[t] = 1
      /\ events[t] = 1
      /\ taskResults[t].taskId = t

\* C7: a waitForTask promise settles once: with the stored result when there is one at the
\* call, else with the result of the completion event of its own id, or by the timeout;
\* while it waits no result of its task is stored and its timer and listener are armed.
C7_WaitSettlesOnce ==
  \A w \in 1..MaxWaiters :
    /\ waiters[w].settles <= 1
    /\ waiters[w].state \in {"resolved", "rejected"} =>
         waiters[w].settles = 1 /\ ~waiters[w].timer /\ ~waiters[w].listener
    /\ waiters[w].state = "resolved" =>
         /\ waiters[w].result.taskId = waiters[w].taskId
         /\ waiters[w].result = taskResults[waiters[w].taskId]
    /\ waiters[w].state = "waiting" =>
         /\ taskResults[waiters[w].taskId] = NoResult
         /\ waiters[w].timer
         /\ waiters[w].listener

\* a waiter still waiting after the completion event of another task was emitted
C7_Witness ==
  \E w \in 1..MaxWaiters, u \in DOMAIN tasks :
    /\ waiters[w].state = "waiting"
    /\ u # waiters[w].taskId
    /\ events[u] = 1

\* C8: once a task has FAILED, every task that is in the queue is later dispatched to an
\* agent (or cancelled): the loop keeps turning.
C8_LoopSurvivesFailure ==
  \A t \in LiveTaskIds :
    [](((\E u \in DOMAIN tasks : tasks[u].status = "FAILED") /\ t \in queuedIds(queues))
         => <>(loadCalls[t].inc = 1 \/ tasks[t].status = "CANCELLED"))

\* a task dispatched and completed after an earlier one had failed by an exception
C8_Witness ==
  \E u, t \in DOMAIN tasks :
    /\ u < t
    /\ tasks[u].status = "FAILED"
    /\ taskResults[u] = NoResult
    /\ tasks[t].status = "COMPLETED"

\* C9: a step whose task was submitted has every dependency named by its template among
\* the steps of the execution and completed; a step with a dependency that is unknown,
\* later in the template, or the step itself is never submitted.
C9_DependenciesFirst ==
  \A i \in 1..Len(wf.steps) :
    wf.submitted[i] > 0 =>
      \A depId \in wf.template[i].dependencies :
        \E k \in 1..Len(wf.steps) :
          /\ k < i
          /\ wf.steps[k].stepId = depId
          /\ wf.steps[k].status = "completed"

\* a step submitted after the step it depends on completed, in a template whose later
\* steps are not all runnable
C9_Witness ==
  \E i \in 1..Len(wf.steps) :
    /\ wf.template[i].dependencies # {}
    /\ wf.submitted[i] = 1
    /\ wf.steps[i].taskId # NoTask

\* C10: an execution that failed because a step's task failed has submitted that step
\* maxAttempts times.
C10_RetriedToTheCap ==
  \A i \in 1..Len(wf.steps) :
    (wf.status = "failed" /\ wf.error = "step" /\ wf.steps[i].status = "failed")
      => wf.submitted[i] = maxAttempts

\* C11: a failed execution has a completion time and an error message, and the steps after
\* the one it stopped at are still pending.
C11_FailedIsStamped ==
  wf.status = "failed" =>
    /\ wf.completedAt
    /\ wf.error # "none"
    /\ \A i \in 1..Len(wf.steps) : wf.submitted[i] = 0 => wf.steps[i].status = "pending"

C13_OpenCircuitNotInvoked ==
  [][\A name \in ProviderNames :
       (/\ router'.calls = router.calls + 1
        /\ router.failRun[name] >= failureThreshold
        /\ router.now < router.failedAt[name] + cooldownMs)
         => name \notin Range(router'.last.invoked)]_vars

\* C14: when the provider a generate call chose fails, the call succeeds if any other
\* registered provider with a closed circuit would answer, and the providers it goes on to
\* are those, in registration order, up to the first that answers: preferred named or not.
FallbackOrder(R, chosen) ==
  SelectSeq(R.providers, LAMBDA name : name # chosen /\ isProviderAvailable(R, name))

RECURSIVE UpToFirstSuccess(_, _)
UpToFirstSuccess(names, replies) ==
  IF names = <<>> THEN <<>>
  ELSE IF replies[Head(names)] THEN <<Head(names)>>
  ELSE <<Head(names)>> \o UpToFirstSuccess(Tail(names), replies)

C14_FallbackOnFailure ==
  [][(/\ router'.calls = router.calls + 1
      /\ router'.last.invoked # <<>>
      /\ ~router'.last.replies[router'.last.invoked[1]])
       => /\ Tail(router'.last.invoked) =
               UpToFirstSuccess(FallbackOrder(router, router'.last.invoked[1]),
                                router'.last.replies)
          /\ router'.last.ok <=>
               \E name \in Range(FallbackOrder(router, router'.last.invoked[1])) :
                 router'.last.replies[name]]_vars

\* C15: with the default provider registered and available, a generate call goes first to
\* the preferred provider when one is named, registered and available, and otherwise to the
\* default provider.
C15_PreferredElseDefault ==
  [][(/\ router'.calls = router.calls + 1
      /\ router'.last.invoked # <<>>
      /\ router.defaultProvider \in Range(router.providers)
      /\ isProviderAvailable(router, router.defaultProvider))
       => router'.last.invoked[1] =
            IF /\ router'.last.preferredProvider \in Range(router.providers)
               /\ isProviderAvailable(router, router'.last.preferredProvider)
            THEN router'.last.preferredProvider
            ELSE router.defaultProvider]_vars

\* C16: a provider whose circuit was opened and whose cooldown has passed is invoked by a
\* call that reaches it; if it fails its circuit is open again for a cooldown from now, and
\* if it answers its circuit is closed with no failure counted.
C16_ProbeAfterCooldown ==
  [][\A name \in ProviderNames :
       (/\ router'.calls = router.calls + 1
        /\ router.circuitBreakers[name].openUntil # 0
        /\ router.now >= router.circuitBreakers[name].openUntil
        /\ name \in Range(router'.last.invoked))
         => IF router'.last.replies[name]
            THEN router'.circuitBreakers[name] = ClosedCircuit
            ELSE router'.circuitBreakers[name].openUntil = router.now + cooldownMs]_vars

\* C17: of the three tasks submitted LOW, CRITICAL, MEDIUM, none is dispatched to the agent
\* before a task of higher priority: the dispatches come CRITICAL, MEDIUM, LOW.
C17_DispatchedByPriority ==
  \A t, u \in DOMAIN tasks :
    (PriorityRank(ScenarioPriorities[t]) < PriorityRank(ScenarioPriorities[u])
       /\ loadCalls[u].inc > 0)
      => loadCalls[t].inc > 0

\* C18: the load the registry reports for a registered agent is never below 0 and never
\* above the agent's maxConcurrentTasks.
C18_LoadWithinCapacity ==
  \A a \in DOMAIN agentStatus :
    /\ getCurrentLoad(Cur, a) >= 0
    /\ getCurrentLoad(Cur, a) <= capabilities[a].maxConcurrentTasks

C18_Witness ==
  \E a \in DOMAIN agentStatus, t \in DOMAIN tasks :
    /\ getCurrentLoad(Cur, a) > 0
    /\ InFlight(a) # {}
    /\ loadCalls[t].dec > 0

\* a step in which processTask, run by loop l, found no agent for the task it was given
NoAgentStep(l) ==
  /\ loops'[l].pc = "delay"
  /\ loops[l].pc # "delay" \/ Resume(processQueueResume(Cur, l))

C20_TerminalIsCompleted ==
  \A t \in DOMAIN tasks :
    tasks[t].status \in TerminalStatuses =>
      /\ t \in completedTasks
      /\ tasks[t].completedAt
      /\ t \notin queuedIds(queues)
      /\ t \notin activeTasks
      /\ getTask(Cur, t)

\* C21: removeTask(id) returns true, with the task then in no queue and not in the active
\* set, exactly when the queue holds the task and it is PENDING or ASSIGNED; otherwise (the
\* task IN_PROGRESS, finished, or not one the queue holds) it returns false and leaves
\* the queues, the active set and the completed set as they were.
C21_RemoveOnlyBeforeStart ==
  [][ret'.op = "removeTask" =>
       /\ ret'.ok <=> /\ getTask(Cur, ret'.task)
                       /\ tasks[ret'.task].status \in {"PENDING", "ASSIGNED"}
       /\ ret'.ok => /\ ret'.task \notin queuedIds(queues')
                     /\ ret'.task \notin activeTasks'
       /\ ~ret'.ok => /\ queues' = queues
                      /\ activeTasks' = activeTasks
                      /\ completedTasks' = completedTasks]_vars

FEq(x, y) == FLeq(x, y) /\ FLeq(y, x)

\* one of the three factors is higher in g than in f and the other four are the same
RaisedAlone(f, g) ==
  \E k \in {"specialization", "historicalSuccess", "availability"} :
    /\ FLess(f[k], g[k])
    /\ \A j \in DOMAIN f \ {k} : FEq(f[j], g[j])

\* C22: the score computed with the default weights is between 0 and 1, and it is not
\* lower than the score before when one of specialization, historicalSuccess and
\* availability was raised and the other factors are what they were.
C22_ScoreBoundedMonotone ==
  ret.op = "calculateScore" =>
    /\ FLeq(Frac(0, 1), ret.score)
    /\ FLeq(ret.score, Frac(100, 1))
    /\ RaisedAlone(ret.before.factors, ret.factors) => FLeq(ret.before.score, ret.score)

C22_Witness ==
  /\ ret.op = "calculateScore"
  /\ RaisedAlone(ret.before.factors, ret.factors)
  /\ FLess(ret.before.factors.availability, ret.factors.availability)
  /\ FLess(ret.before.score, ret.score)

\* C23: the specialization factor is 0.3 when the agent does not support the task's type;
\* otherwise it is the share of the task's required capabilities found among the agent's
\* skills, and 1.0 when the task requires none.
C23_SpecializationValue ==
  ret.op = "calculateScore" =>
    FEq(ret.factors.specialization,
        IF tasks[1].type \notin capabilities[ret.agent].supportedTaskTypes THEN Frac(3, 10)
        ELSE IF tasks[1].requiredCapabilities = {} THEN Frac(1, 1)
        ELSE Frac(Cardinality(tasks[1].requiredCapabilities \cap capabilities[ret.agent].skills),
                  Cardinality(tasks[1].requiredCapabilities)))

IdleAgents == {a \in DOMAIN agentStatus : agentStatus[a] = "IDLE"}

\* the IDLE agents with one of the task's required capabilities, all of them if it has none
IdleCapable(task) ==
  {a \in IdleAgents :
     task.requiredCapabilities = {} \/ task.requiredCapabilities \cap capabilities[a].skills # {}}

RegisteredBefore(a, b) ==
  \E i, j \in 1..Len(AgentOrder) : i < j /\ AgentOrder[i] = a /\ AgentOrder[j] = b

C25_FailedOnceWithReason ==
  [][\A t \in DOMAIN tasks :
       /\ loadCalls'[t].inc <= 1
       /\ tasks'[t].status = "FAILED" =>
            /\ taskResults'[t].taskId = t
            /\ ~taskResults'[t].success
            /\ t \notin queuedIds(queues')
       /\ tasks[t].status = "FAILED" =>
            /\ tasks'[t].status = "FAILED"
            /\ loadCalls'[t].inc = loadCalls[t].inc]_vars

C27_CompletedIffAllSteps ==
  wf.pc # "none" =>
    /\ wf.status = "completed" <=> \A i \in 1..Len(wf.steps) : wf.steps[i].status = "completed"
    /\ wf.status = "completed" => wf.completedAt

C27_Witness ==
  /\ wf.pc = "ended"
  /\ wf.status = "completed"
  /\ wf.completedAt
  /\ Len(wf.steps) = MaxSteps
  /\ \A i \in 1..Len(wf.steps) : wf.steps[i].status = "completed" /\ wf.submitted[i] = 1

\* C28: in the inputs prepared for a step, an entry whose value is "input" has the value
\* the caller supplied under that entry's key, an entry "from_<id>" of a completed step
\* <id> has the result that step stored, and any other value is passed through unchanged.
C28_InputsResolved ==
  (ret.op = "executeWorkflow" /\ ret.pc = "waiting") =>
    LET step == ret.template[ret.currentStep + 1]
    IN \A key \in DOMAIN step.inputs :
         LET value == step.inputs[key]
         IN /\ (value = inputWord /\ key \in DOMAIN ret.initialInputs)
                 => ret.inputs[key] = ret.initialInputs[key]
            /\ (startsWith(value, fromPrefix) /\ substring(value, 5) \in DOMAIN ret.stored)
                 => ret.inputs[key] = ret.stored[substring(value, 5)]
            /\ (value # inputWord /\ ~startsWith(value, fromPrefix))
                 => ret.inputs[key] = value

\* C29: a call to the router, generate or embed, fallback attempts included, invokes no
\* provider whose circuit was open when the call was made.
C29_OpenCircuitNeverInvoked ==
  [][router'.calls # router.calls =>
       \A name \in Range(router.providers) :
         ~isProviderAvailable(router, name) => name \notin Range(router'.last.invoked)]_vars

\* C30: of two tasks submitted with the same priority, type and required capabilities,
\* the one submitted later is dispatched to an agent only after the one submitted earlier,
\* unless the earlier one was cancelled.
C30_DispatchedInSubmissionOrder ==
  \A t1, t2 \in DOMAIN tasks :
    ( /\ t1 < t2
      /\ tasks[t2].status # "NONE"
      /\ tasks[t1].status # "CANCELLED"
      /\ tasks[t1].priority = tasks[t2].priority
      /\ tasks[t1].type = tasks[t2].type
      /\ tasks[t1].requiredCapabilities = tasks[t2].requiredCapabilities
      /\ loadCalls[t2].inc > 0 )
    => loadCalls[t1].inc > 0

\* C31: a task that cancelTask has cancelled keeps the status CANCELLED, is not dequeued
\* again (it does not enter the active set), is not dispatched to an agent (no load call
\* is made for it) and gets no TaskResult.
C31_CancelledStaysOut ==
  [][\A t \in DOMAIN tasks :
       tasks[t].status = "CANCELLED" =>
         /\ tasks'[t].status = "CANCELLED"
         /\ t \in activeTasks' => t \in activeTasks
         /\ loadCalls'[t] = loadCalls[t]
         /\ taskResults'[t] = taskResults[t]]_vars

\* C32: every task the TaskQueue knows is in exactly one of the pending queues, the active
\* set and the completed set, and at most once in the pending queues, so that the pending,
\* active and completed counts of getStats add up to the number of tasks it knows.
C32_CountedOnce ==
  /\ \A t \in DOMAIN tasks :
       getTask(Cur, t) =>
         /\ Cardinality({place \in {"pending", "active", "completed"} :
                           \/ place = "pending" /\ t \in queuedIds(queues)
                           \/ place = "active" /\ t \in activeTasks
                           \/ place = "completed" /\ t \in completedTasks}) = 1
         /\ Cardinality({<<p, i>> \in Priorities \X (1..MaxTasks) :
                           i <= Len(queues[p]) /\ queues[p][i] = t}) <= 1
  /\ getStats(Cur).pending + getStats(Cur).active + getStats(Cur).completed
       = Cardinality({t \in DOMAIN tasks : getTask(Cur, t)})

C34_CounterCountsFailures ==
  \A name \in Range(router.providers) :
    router.circuitBreakers[name].consecutiveFailures = router.failRun[name]

\* C35: an agent that is not IDLE, because a task was dispatched to it, is eventually IDLE
\* again, whether the task succeeds, fails or its execution throws.
C35_AgentIdleAgain ==
  \A a \in Agents :
    []((a \in DOMAIN agentStatus /\ agentStatus[a] # "IDLE")
         => <>(a \in DOMAIN agentStatus /\ agentStatus[a] = "IDLE"))

\* the agent idle again after one task it completed and one whose execution failed or threw
C35_Witness ==
  \E t, u \in DOMAIN tasks, a \in DOMAIN agentStatus :
    /\ tasks[t].status = "COMPLETED"
    /\ tasks[u].status = "FAILED"
    /\ loadCalls[t].dec = 1
    /\ loadCalls[u].dec = 1
    /\ agentStatus[a] = "IDLE"
    /\ agentTask[a] = NoTask
    /\ ~idleTimer[a]

\* C36: a workflow execution that was started eventually has status completed or failed,
\* for every template and whether the tasks of its steps complete, fail or never finish.
C36_ExecutionEnds ==
  [](wf.pc # "none" => <>(wf.status \in {"completed", "failed"}))

\* an execution failed by the timeout of a step's wait, the step's task unfinished
C36_Witness ==
  /\ wf.pc = "ended"
  /\ wf.status = "failed"
  /\ wf.error = "timeout"
  /\ \E i \in 1..Len(wf.steps) :
       /\ wf.steps[i].status = "failed"
       /\ wf.steps[i].taskId # NoTask
       /\ tasks[wf.steps[i].taskId].status = "IN_PROGRESS"

\* C37: getWorkflowStatus reports a progress within 0..100, which is 100 for an execution
\* whose status is completed and less than 100 for any other.
C37_ProgressReported ==
  wf.pc # "none" =>
    /\ getWorkflowStatus(Cur).progress \in 0..100
    /\ wf.status = "completed" <=> getWorkflowStatus(Cur).progress = 100

\* C38: the task submitted for a workflow step is assigned only to an agent whose type is
\* the agent type the step names.
C38_StepAgentOfType ==
  \A i \in 1..Len(wf.steps) :
    (wf.steps[i].taskId # NoTask /\ tasks[wf.steps[i].taskId].assignedAgentId # NoAgent)
      => agentType[tasks[wf.steps[i].taskId].assignedAgentId] = wf.template[i].agentType

\* C39: once a workflow execution has status completed or failed, none of the tasks
\* submitted for its steps is PENDING, ASSIGNED or IN_PROGRESS.
C39_NoTaskLeftBehind ==
  wf.status \in {"completed", "failed"} =>
    \A i \in 1..Len(wf.steps) :
      wf.steps[i].taskId # NoTask =>
        tasks[wf.steps[i].taskId].status \notin {"PENDING", "ASSIGNED", "IN_PROGRESS"}

====
